---- MODULE Spec2Model ----
(***************************************************************************)
(* Model of earnings_notifier.py: the TDnet / EDINET disclosure notifier.  *)
(*                                                                         *)
(* Japanese text is written as a sequence of romanised morphemes, so that  *)
(* Python's substring test `kw in title` becomes a contiguous-subsequence  *)
(* test on sequences.  A document_key f"tdnet_{id}" is the pair            *)
(* <<"tdnet", id>>.  Python's None is the string "None".                   *)
(***************************************************************************)
EXTENDS Naturals, Integers, Sequences, FiniteSets, TLC

VARIABLES
    pc,            \* position of main(): off, load, tdnet, tdnet_loop, edinet_loop, done, crashed
    file,          \* SENT_FILE on disk: [kind, ids]
    webhook,       \* the two webhook URLs read from the environment
    sent,          \* main's local set `sent`
    tdnetItems,    \* the not yet iterated part of fetch_tdnet()'s result
    edinetDocs,    \* the not yet iterated part of fetch_edinet_documents()'s result
    new_sent,      \* main's counter
    last,          \* what the most recent loop iteration did
    crashedIn,     \* the function whose exception ended the run ("None" if none)
    \* history of the current run
    loaded,        \* the ledger as load_sent returned it
    inserted,      \* keys in the order they entered the ledger
    calls,         \* the post_discord calls of the run, in order
    prevDelivered, \* keys the previous run delivered and handed to save_sent among
                   \* the Capacity most recently inserted ones
    \* the pure-function specifications
    arg,           \* the input of the function under check
    ret            \* [done, value]: its result, once it has been called

vars == <<pc, file, webhook, sent, tdnetItems, edinetDocs, new_sent, last,
          crashedIn, loaded, inserted, calls, prevDelivered, arg, ret>>

mainVars == <<pc, file, webhook, sent, tdnetItems, edinetDocs, new_sent, last,
              crashedIn, loaded, inserted, calls, prevDelivered>>

(***************************************************************************)
(* Bounds of the model.                                                    *)
(***************************************************************************)
\* longest upstream listing (today.json, the EDINET results)
MaxItems == 2
\* longest listing of the Friday url, fetched on a Monday
MaxFridayItems == 1
\* save_sent keeps 3000 ids; the model keeps this many, so that an overflow
\* of the ledger is reachable
Capacity == 2
\* largest Retry-After value, in seconds, the webhook answers with
MaxRetryAfter == 3
\* number of text fragments a title or description is made of
MaxParts == 3

\* int(r.headers.get("Retry-After", 5))
DefaultRetryAfter == 5

None == "None"

Range(s) == {s[i] : i \in 1..Len(s)}

Min(a, b) == IF a < b THEN a ELSE b

\* s[-n:]
LastN(s, n) == SubSeq(s, Len(s) - Min(n, Len(s)) + 1, Len(s))

\* every sequence of length at most n over S
SeqsUpTo(S, n) == UNION {[1..k -> S] : k \in 0..n}

\* every ordering of the finite set S
Orderings(S) ==
    {f \in [1..Cardinality(S) -> S] : \A i, j \in 1..Cardinality(S) : f[i] = f[j] => i = j}

(***************************************************************************)
(* Text and keywords.                                                      *)
(***************************************************************************)
\* kw in text
Contains(kw, text) ==
    \E i \in 0..(Len(text) - Len(kw)) : SubSeq(text, i + 1, i + Len(kw)) = kw

\* any(kw in text for kw in kws)
AnyIn(kws, text) == \E kw \in kws : Contains(kw, text)

EDINET_SKIP == {
    <<"yuukashouken", "houkokusho">>,           \* 有価証券報告書
    <<"shi", "hanki", "houkokusho">>,           \* 四半期報告書
    <<"hanki", "houkokusho">>,                  \* 半期報告書
    <<"rinji", "houkokusho">>,                  \* 臨時報告書
    <<"naibutousei", "houkokusho">>,            \* 内部統制報告書
    <<"tairyouhoyuu", "houkokusho">>,           \* 大量保有報告書
    <<"henkou", "houkokusho">>,                 \* 変更報告書
    <<"koukai", "kaitsuke">>,                   \* 公開買付
    <<"teisei">>,                               \* 訂正
    <<"yuukashouken", "todokedesho">> }         \* 有価証券届出書

EarningsKeywords == {
    <<"kessan", "tanshin">>,                    \* 決算短信
    <<"shi", "hanki", "kessan", "tanshin">>,    \* 四半期決算短信
    <<"chuukan", "kessan", "tanshin">> }        \* 中間決算短信

RevisionKeywords == {
    <<"jouhou", "shuusei">>,                    \* 上方修正
    <<"kahou", "shuusei">>,                     \* 下方修正
    <<"gyouseki", "shuusei">>,                  \* 業績修正
    <<"gyouseki", "yosou", "no", "shuusei">> }  \* 業績予想の修正

PharmaKeywords == {
    <<"yakuji">>,                               \* 薬事
    <<"FDA">>,
    <<"chiken">>,                               \* 治験
    <<"shinyaku">>,                             \* 新薬
    <<"shounin", "shutoku">>,                   \* 承認取得
    <<"seizou", "hanbai", "shounin">> }         \* 製造販売承認

classify_tdnet(item) ==
    LET title == item.title
    IN  IF AnyIn(EarningsKeywords, title) THEN "earnings"
        ELSE IF AnyIn(RevisionKeywords, title) THEN "revision"
        ELSE IF AnyIn(PharmaKeywords, title) THEN "pharma"
        ELSE None

classify_edinet(doc) ==
    LET desc == doc.docDescription     \* <<>> is an absent, null or empty description
    IN  IF AnyIn(EDINET_SKIP, desc) THEN None
        ELSE IF AnyIn(RevisionKeywords, desc) THEN "revision"
        ELSE IF AnyIn(PharmaKeywords, desc) THEN "pharma"
        ELSE None

(***************************************************************************)
(* fetch_tdnet.  An upstream item is [kind, id, title, company_code]:      *)
(* kind "dict" is a JSON object, any other kind is a JSON value without    *)
(* .get (a string, a number, null).  id "" and title <<>> stand for an     *)
(* absent or empty field.  A company_code is a sequence of characters.     *)
(***************************************************************************)
Digits == {"0", "1", "2", "3", "4", "5", "6", "7", "8", "9"}

\* code.isdigit()
isdigit(code) == code # <<>> /\ \A i \in 1..Len(code) : code[i] \in Digits

\* the ETF / REIT range: code[:2] in ("10", ..., "19")
ExcludedPrefixes == {<<"1", d>> : d \in Digits}

\* lines 89-92: individual stocks only
EligibleCode(code) ==
    /\ isdigit(code)
    /\ Len(code) = 5
    /\ code[5] = "0"
    /\ SubSeq(code, 1, 2) \notin ExcludedPrefixes

\* the body of `for item in items`, up to the first exception; the
\* exception leaves the loop and is caught by the except of the url
RECURSIVE TdnetScan(_, _, _)
TdnetScan(items, results, seen_ids) ==
    IF items = <<>> THEN [results |-> results, seen_ids |-> seen_ids]
    ELSE LET item == Head(items)
             rest == Tail(items)
         IN  IF item.kind # "dict"
             THEN [results |-> results, seen_ids |-> seen_ids]   \* item.get raises
             ELSE IF item.id = "" \/ item.title = <<>>
             THEN TdnetScan(rest, results, seen_ids)
             ELSE IF item.id \in seen_ids
             THEN TdnetScan(rest, results, seen_ids)
             ELSE IF ~EligibleCode(item.company_code)
             THEN TdnetScan(rest, results, seen_ids \cup {item.id})
             ELSE TdnetScan(rest,
                            Append(results, [id |-> item.id,
                                             ticker |-> SubSeq(item.company_code, 1, 4),
                                             title |-> item.title]),
                            seen_ids \cup {item.id})

\* `for url in urls`: a response is [kind, status, items]; kind "exc" is a
\* requests.get or r.json() that raised
RECURSIVE TdnetUrls(_, _, _)
TdnetUrls(responses, results, seen_ids) ==
    IF responses = <<>> THEN results
    ELSE LET r == Head(responses)
         IN  IF r.kind = "exc" \/ r.status # 200
             THEN TdnetUrls(Tail(responses), results, seen_ids)
             ELSE LET s == TdnetScan(r.items, results, seen_ids)
                  IN  TdnetUrls(Tail(responses), s.results, s.seen_ids)

\* responses: one per url, today.json first, then Friday's on a Monday
fetch_tdnet(responses) == TdnetUrls(responses, <<>>, {})

\* the upstream items over the given ids, titles and codes
TdnetRawItems(ids, titles, codes) ==
    [kind : {"dict"}, id : ids, title : titles, company_code : codes]
    \cup [kind : {"str"}, id : {""}, title : {<<>>}, company_code : {<<>>}]

\* what one url can answer with, its listing at most n long
TdnetResponses(rawItems, n) ==
    [kind : {"ok"}, status : {200}, items : SeqsUpTo(rawItems, n)]
    \cup [kind : {"ok"}, status : {503}, items : {<<>>}]
    \cup [kind : {"exc"}, status : {0}, items : {<<>>}]

\* today's url alone, or today's and Friday's (today.weekday() == 0)
TdnetUrlResponses(rawItems, n, m) ==
    {<<t>> : t \in TdnetResponses(rawItems, n)}
    \cup {<<t, f>> : t \in TdnetResponses(rawItems, n), f \in TdnetResponses(rawItems, m)}

(***************************************************************************)
(* Inputs of the pure functions.                                           *)
(***************************************************************************)
Fragments == {
    <<"teisei">>,
    <<"yuukashouken", "houkokusho">>,
    <<"kessan", "tanshin">>,
    <<"jouhou", "shuusei">>,
    <<"yakuji">>,
    <<"no", "oshirase">> }

RECURSIVE Texts(_)
Texts(n) ==
    IF n = 0 THEN {<<>>}
    ELSE Texts(n - 1) \cup {t \o f : t \in Texts(n - 1), f \in Fragments}

Codes == {
    <<"7", "2", "0", "3", "0">>,     \* a listed stock
    <<"1", "3", "0", "6", "0">>,     \* an ETF
    <<"7", "2", "0", "3">>,          \* four characters
    <<"1", "3", "0", "A", "0">> }    \* not digits

PureItems == TdnetRawItems({"", "1", "2"}, {<<>>, <<"kessan", "tanshin">>}, Codes)

PureArgs ==
    [fn : {"classify_tdnet"}, item : [title : Texts(MaxParts)]]
    \cup [fn : {"classify_edinet"}, doc : [docDescription : Texts(MaxParts)]]
    \cup [fn : {"fetch_tdnet"}, responses : TdnetUrlResponses(PureItems, MaxItems, MaxFridayItems)]

(***************************************************************************)
(* The ledger file.  kind "json" is {"ids": [...]}; the other kinds are    *)
(* what load_sent can find instead.                                        *)
(***************************************************************************)
NoFile == [kind |-> "missing", ids |-> <<>>]

UnreadableFiles ==
    [kind : {"not_json",        \* json.loads raises JSONDecodeError
             "not_object",      \* a JSON array or string: data.get raises
             "ids_null",        \* {"ids": null}: set(None) raises
             "no_ids"},         \* a JSON object without "ids"
     ids : {<<>>}]

\* [raised, value]: `raised` is an exception leaving load_sent
load_sent(f) ==
    IF f.kind = "missing" THEN [raised |-> FALSE, value |-> {}]
    ELSE IF f.kind = "json" THEN [raised |-> FALSE, value |-> Range(f.ids)]
    ELSE IF f.kind = "no_ids" THEN [raised |-> FALSE, value |-> {}]
    ELSE [raised |-> TRUE, value |-> {}]

\* ids is list(sent): a set has no insertion order, any ordering can come out
save_sent(ids) == [kind |-> "json", ids |-> LastN(ids, Capacity)]

(***************************************************************************)
(* post_discord.  A webhook response is [kind, status, ra_kind, ra]; kind  *)
(* "exc" is a requests.post that raised (timeout, connection error);       *)
(* ra_kind tells whether Retry-After is absent, an integer (ra) or text    *)
(* int() does not accept.                                                  *)
(***************************************************************************)
WebhookResponses ==
    [kind : {"ok"}, status : {200, 204, 500}, ra_kind : {"absent"}, ra : {0}]
    \cup [kind : {"ok"}, status : {429}, ra_kind : {"int"}, ra : 1..MaxRetryAfter]
    \cup [kind : {"ok"}, status : {429}, ra_kind : {"absent", "other"}, ra : {0}]
    \cup [kind : {"exc"}, status : {0}, ra_kind : {"absent"}, ra : {0}]

NoCall == [posts |-> 0, first |-> 0, slept |-> 0, second |-> 0,
           raised |-> FALSE, log |-> "none"]

\* r1 answers the first POST, r2 the retry; the result tells what the call
\* did: the number of POSTs, the statuses, the seconds slept, what it
\* printed, and whether an exception left it.  It returns None always.
post_discord(webhook_url, r1, r2) ==
    IF webhook_url = "" THEN [NoCall EXCEPT !.log = "empty"]
    ELSE IF r1.kind = "exc" THEN [NoCall EXCEPT !.posts = 1, !.raised = TRUE]
    ELSE IF r1.status = 429
    THEN IF r1.ra_kind = "other"
         THEN [NoCall EXCEPT !.posts = 1, !.first = 429, !.raised = TRUE]
         ELSE LET n == IF r1.ra_kind = "absent" THEN DefaultRetryAfter ELSE r1.ra
              IN  IF r2.kind = "exc"
                  THEN [NoCall EXCEPT !.posts = 2, !.first = 429, !.slept = n,
                                      !.raised = TRUE]
                  ELSE [NoCall EXCEPT !.posts = 2, !.first = 429, !.slept = n,
                                      !.second = r2.status]
    ELSE IF r1.status \notin {200, 204}
    THEN [NoCall EXCEPT !.posts = 1, !.first = r1.status, !.log = "error"]
    ELSE [NoCall EXCEPT !.posts = 1, !.first = r1.status, !.log = "success"]

\* how a call ended, from the statuses it got
CallResult(o) ==
    IF o.raised THEN "raised"
    ELSE IF o.posts = 0 THEN "not_posted"
    ELSE IF o.posts = 1 THEN (IF o.first \in {200, 204} THEN "delivered" ELSE "failed")
    ELSE (IF o.second \in {200, 204} THEN "delivered" ELSE "failed")

(***************************************************************************)
(* fetch_edinet_documents.  The response is [kind, status, results]; a     *)
(* result is [kind, docID, docDescription].                                *)
(***************************************************************************)
fetch_edinet_documents(r) ==
    IF r.kind = "exc" \/ r.status >= 400 THEN <<>> ELSE r.results

EdinetRawDocs(ids, descs) ==
    [kind : {"dict"}, docID : ids, docDescription : descs]
    \cup [kind : {"str"}, docID : {""}, docDescription : {<<>>}]

EdinetResponses(rawDocs, n) ==
    [kind : {"ok"}, status : {200}, results : SeqsUpTo(rawDocs, n)]
    \cup [kind : {"ok"}, status : {500}, results : {<<>>}]
    \cup [kind : {"exc"}, status : {0}, results : {<<>>}]

(***************************************************************************)
(* main().  One action per step of main: load_sent, fetch_tdnet, one       *)
(* iteration of each loop, fetch_edinet_documents, save_sent.              *)
(* get_financials and the embed builders catch or raise nothing and only   *)
(* shape the payload; `last.embed` names the builder that was called.      *)
(***************************************************************************)
Channels == {"earnings", "news"}

\* f"tdnet_{item['id']}", f"edinet_{doc.get('docID','')}"
document_key(adapter, source_id) == <<adapter, source_id>>

\* a ledger test on the bare source id, without the adapter tag
AlreadySentBareId(doc_id, s) == document_key("", doc_id[2]) \in s

\* `if doc_id in sent: continue`
AlreadySent(doc_id, s) == doc_id \in s

\* a test for the empty string alone, which lets None through
IgnoreEmptyOnly(category) == category = ""

\* `if not itype: continue`
Ignore(category) == category = None

\* what the upstreams answer with in a run of main
MainTitles == {<<"kessan", "tanshin">>, <<"kahou", "shuusei">>, <<"no", "oshirase">>}

Stock == <<"7", "2", "0", "3", "0">>

Etf == <<"1", "3", "0", "6", "0">>

MainTdnetItems ==
    TdnetRawItems({"1", "2"}, MainTitles, {Stock})
    \cup TdnetRawItems({"2"}, {<<"kessan", "tanshin">>}, {Etf})

MainDescriptions == {<<"kahou", "shuusei">>, <<"teisei", "kahou", "shuusei">>}

MainEdinetDocs == EdinetRawDocs({"1", "2"}, MainDescriptions)

\* every result fetch_tdnet() can return in a run, over what the urls answer
TdnetResults ==
    {fetch_tdnet(responses) :
        responses \in TdnetUrlResponses(MainTdnetItems, MaxItems, MaxFridayItems)}

\* every result fetch_edinet_documents() can return in a run
EdinetResults ==
    {fetch_edinet_documents(r) : r \in EdinetResponses(MainEdinetDocs, MaxItems)}

NoAnswer == [kind |-> "none", status |-> 0, ra_kind |-> "absent", ra |-> 0]

\* `answer` is the response to the first POST of the iteration's call
NoStep == [key |-> <<"", "">>, text |-> <<>>, step |-> "none", channel |-> "",
           embed |-> "", answer |-> NoAnswer, out |-> NoCall]

Posted == [i \in 1..Len(calls) |-> calls[i].key]

KeysWith(result) == {calls[i].key : i \in {j \in 1..Len(calls) : calls[j].result = result}}

Delivered == KeysWith("delivered")

Failed == KeysWith("failed")

Init ==
    /\ pc = "load"
    /\ file \in {NoFile} \cup UnreadableFiles
    /\ webhook \in {[c \in Channels |-> "url"], [c \in Channels |-> ""]}
    /\ sent = {}
    /\ tdnetItems = <<>>
    /\ edinetDocs = <<>>
    /\ new_sent = 0
    /\ last = NoStep
    /\ crashedIn = None
    /\ loaded = {}
    /\ inserted = <<>>
    /\ calls = <<>>
    /\ prevDelivered = {}
    /\ arg = [fn |-> "main"]
    /\ ret = [done |-> FALSE]

\* line 325: sent = load_sent()
LoadSent ==
    /\ pc = "load"
    /\ LET r == load_sent(file)
       IN  IF r.raised
           THEN /\ pc' = "crashed"
                /\ crashedIn' = "load_sent"
                /\ UNCHANGED <<sent, loaded, inserted>>
           ELSE /\ pc' = "tdnet"
                /\ sent' = r.value
                /\ loaded' = r.value
                /\ inserted' = file.ids
                /\ UNCHANGED crashedIn
    /\ UNCHANGED <<file, webhook, tdnetItems, edinetDocs, new_sent, last, calls,
                   prevDelivered, arg, ret>>

\* line 330: the call of fetch_tdnet()
FetchTdnet ==
    /\ pc = "tdnet"
    /\ \E results \in TdnetResults : tdnetItems' = results
    /\ pc' = "tdnet_loop"
    /\ UNCHANGED <<file, webhook, sent, edinetDocs, new_sent, last, crashedIn,
                   loaded, inserted, calls, prevDelivered, arg, ret>>

\* the answers to the retry: any, when post_discord POSTs a second time
RetryResponses(webhook_url, r1) ==
    IF post_discord(webhook_url, r1, r1).posts = 2 THEN WebhookResponses ELSE {r1}

\* post_discord(webhook, build_..._embed(...)), then sent.add(doc_id),
\* new_sent += 1, time.sleep(1); an exception of post_discord leaves main
Dispatch(doc_id, text, channel, embed) ==
    \E r1 \in WebhookResponses :
        \E r2 \in RetryResponses(webhook[channel], r1) :
            LET o == post_discord(webhook[channel], r1, r2)
            IN  /\ last' = [key |-> doc_id, text |-> text, step |-> "dispatch",
                            channel |-> channel, embed |-> embed,
                            answer |-> IF o.posts = 0 THEN NoAnswer ELSE r1, out |-> o]
                /\ calls' = Append(calls, [key |-> doc_id, result |-> CallResult(o)])
                /\ IF o.raised
                   THEN /\ pc' = "crashed"
                        /\ crashedIn' = "post_discord"
                        /\ UNCHANGED <<sent, new_sent, inserted>>
                   ELSE /\ sent' = sent \cup {doc_id}
                        /\ new_sent' = new_sent + 1
                        /\ inserted' = Append(inserted, doc_id)
                        /\ UNCHANGED <<pc, crashedIn>>

\* `continue`
Continue(doc_id, text, why) ==
    /\ last' = [NoStep EXCEPT !.key = doc_id, !.text = text, !.step = why]
    /\ UNCHANGED <<pc, sent, new_sent, crashedIn, inserted, calls>>

\* lines 330-348: one iteration of the TDnet loop
TdnetItem ==
    /\ pc = "tdnet_loop"
    /\ tdnetItems # <<>>
    /\ LET item == Head(tdnetItems)
           itype == classify_tdnet(item)
           doc_id == document_key("tdnet", item.id)
       IN  IF Ignore(itype)
           THEN Continue(doc_id, item.title, "ignore")
           ELSE IF AlreadySent(doc_id, sent)
           THEN Continue(doc_id, item.title, "already_sent")
           ELSE IF itype = "earnings"
           THEN Dispatch(doc_id, item.title, "earnings", "build_earnings_embed")
           ELSE Dispatch(doc_id, item.title, "news", "build_news_embed")
    /\ tdnetItems' = Tail(tdnetItems)
    /\ UNCHANGED <<file, webhook, edinetDocs, loaded, prevDelivered, arg, ret>>

\* line 352: the call of fetch_edinet_documents(target)
FetchEdinet ==
    /\ pc = "tdnet_loop"
    /\ tdnetItems = <<>>
    /\ \E results \in EdinetResults : edinetDocs' = results
    /\ pc' = "edinet_loop"
    /\ last' = NoStep
    /\ UNCHANGED <<file, webhook, sent, tdnetItems, new_sent, crashedIn,
                   loaded, inserted, calls, prevDelivered, arg, ret>>

\* lines 352-367: one iteration of the EDINET loop; doc.get raises on a
\* result that is no JSON object, and nothing in main catches it
EdinetDoc ==
    /\ pc = "edinet_loop"
    /\ edinetDocs # <<>>
    /\ LET doc == Head(edinetDocs)
           doc_id == document_key("edinet", doc.docID)
           dtype == classify_edinet(doc)
       IN  IF doc.kind # "dict"
           THEN /\ pc' = "crashed"
                /\ crashedIn' = "main"
                /\ last' = [NoStep EXCEPT !.step = "malformed"]
                /\ UNCHANGED <<sent, new_sent, inserted, calls>>
           ELSE IF AlreadySent(doc_id, sent)
           THEN Continue(doc_id, doc.docDescription, "already_sent")
           ELSE IF Ignore(dtype)
           THEN Continue(doc_id, doc.docDescription, "ignore")
           ELSE Dispatch(doc_id, doc.docDescription, "news", "build_news_embed")
    /\ edinetDocs' = Tail(edinetDocs)
    /\ UNCHANGED <<file, webhook, tdnetItems, loaded, prevDelivered, arg, ret>>

\* line 369: save_sent(sent)
SaveSent ==
    /\ pc = "edinet_loop"
    /\ edinetDocs = <<>>
    /\ \E ids \in Orderings(sent) : file' = save_sent(ids)
    /\ pc' = "done"
    /\ last' = NoStep
    /\ UNCHANGED <<webhook, sent, tdnetItems, edinetDocs, new_sent, crashedIn,
                   loaded, inserted, calls, prevDelivered, arg, ret>>

\* the scheduler starts the next run once the process has ended
NextRun ==
    /\ pc \in {"done", "crashed"}
    /\ pc' = "load"
    /\ sent' = {}
    /\ tdnetItems' = <<>>
    /\ edinetDocs' = <<>>
    /\ new_sent' = 0
    /\ last' = NoStep
    /\ crashedIn' = None
    /\ loaded' = {}
    /\ inserted' = <<>>
    /\ calls' = <<>>
    /\ prevDelivered' = IF pc = "done"
                        THEN Delivered \cap Range(LastN(inserted, Capacity))
                        ELSE {}
    /\ UNCHANGED <<file, webhook, arg, ret>>

Next ==
    \/ LoadSent
    \/ FetchTdnet
    \/ TdnetItem
    \/ FetchEdinet
    \/ EdinetDoc
    \/ SaveSent
    \/ NextRun

Spec == Init /\ [][Next]_vars

(***************************************************************************)
(* The pure functions, each applied once to an input drawn from PureArgs.  *)
(***************************************************************************)
InitPure ==
    /\ pc = "off"
    /\ file = NoFile
    /\ webhook = [c \in Channels |-> "url"]
    /\ sent = {}
    /\ tdnetItems = <<>>
    /\ edinetDocs = <<>>
    /\ new_sent = 0
    /\ last = NoStep
    /\ crashedIn = None
    /\ loaded = {}
    /\ inserted = <<>>
    /\ calls = <<>>
    /\ prevDelivered = {}
    /\ arg \in PureArgs
    /\ ret = [done |-> FALSE]

CallClassifyTdnet ==
    /\ arg.fn = "classify_tdnet"
    /\ ~ret.done
    /\ ret' = [done |-> TRUE, value |-> classify_tdnet(arg.item)]
    /\ UNCHANGED <<mainVars, arg>>

CallClassifyEdinet ==
    /\ arg.fn = "classify_edinet"
    /\ ~ret.done
    /\ ret' = [done |-> TRUE, value |-> classify_edinet(arg.doc)]
    /\ UNCHANGED <<mainVars, arg>>

CallFetchTdnet ==
    /\ arg.fn = "fetch_tdnet"
    /\ ~ret.done
    /\ ret' = [done |-> TRUE, value |-> fetch_tdnet(arg.responses)]
    /\ UNCHANGED <<mainVars, arg>>

NextPure ==
    \/ CallClassifyTdnet
    \/ CallClassifyEdinet
    \/ CallFetchTdnet

SpecPure == InitPure /\ [][NextPure]_vars

(***************************************************************************)
(* Properties.                                                             *)
(***************************************************************************)
\* the classifier of the adapter a key belongs to, on a text
Classify(adapter, text) ==
    IF adapter = "tdnet" THEN classify_tdnet([title |-> text])
    ELSE classify_edinet([docDescription |-> text])

RunStarted == pc \in {"tdnet", "tdnet_loop", "edinet_loop", "done", "crashed"}

NotRaisedKeys == {calls[i].key : i \in {j \in 1..Len(calls) : calls[j].result # "raised"}}

\* C1: a document whose delivery ended with a failure status (a non-success
\* status other than 429, or 429 and then a non-success status on the
\* retry) is not added to the ledger `sent` in that run, and so is not in
\* the file save_sent writes.
C1_FailedDeliveryNotInLedger ==
    \A k \in Failed :
        /\ k \notin sent
        /\ pc = "done" => k \notin Range(file.ids)

\* C2: when the webhook answers the first POST with 429 and Retry-After: N,
\* post_discord sleeps at least N, POSTs exactly once more, and, when the
\* retry is answered with 429 too, the delivery is recorded as failed (an
\* error is logged or the key stays out of the ledger) and the run goes on.
C2_RetryOnceThenFailed ==
    (/\ last.step = "dispatch"
     /\ last.answer.kind = "ok"
     /\ last.answer.status = 429
     /\ last.answer.ra_kind = "int")
    => /\ last.out.posts = 2
       /\ last.out.slept >= last.answer.ra
       /\ (~last.out.raised /\ last.out.second = 429)
            => /\ pc # "crashed"
               /\ last.out.log = "error" \/ last.key \notin sent

\* C3: a key the previous run delivered and persisted with save_sent, and
\* a key in the ledger load_sent returned, gets no post_discord call in
\* this run.
C3_NoRedeliveryAcrossRuns ==
    \A i \in 1..Len(calls) :
        /\ calls[i].key \notin prevDelivered
        /\ calls[i].key \notin loaded

\* C4: once more keys than the capacity have entered the ledger, the file
\* save_sent writes holds exactly Capacity ids, the most recently
\* inserted ones.
C4_FifoEviction ==
    (pc = "done" /\ Cardinality(sent) > Capacity)
    => /\ Len(file.ids) = Capacity
       /\ Range(file.ids) = Range(LastN(inserted, Capacity))

\* a requests.post of the call raised (the first POST, or the retry)
NetworkError(o) == o.raised /\ (o.first = 0 \/ o.posts = 2)

\* C5: a network-level failure of one delivery does not abort the run:
\* main goes on with the remaining documents and reaches save_sent.
C5_DeliveryErrorDoesNotAbort ==
    (last.step = "dispatch" /\ NetworkError(last.out)) => pc # "crashed"

\* C6: with an unreadable ledger file, load_sent yields the empty ledger
\* and the run proceeds; the file never aborts the startup.
C6_UnreadableLedgerIsEmpty ==
    (file \in UnreadableFiles /\ pc \in {"tdnet", "tdnet_loop", "edinet_loop", "crashed"})
    => /\ crashedIn # "load_sent"
       /\ loaded = {}

\* the text either classifier is called with
ClassifiedText ==
    IF arg.fn = "classify_tdnet" THEN arg.item.title ELSE arg.doc.docDescription

\* C7: a text with an exclusion keyword (EDINET_SKIP) and an earnings
\* keyword classifies as ignore (None), whichever adapter it comes from.
C7_ExclusionDominates ==
    (/\ arg.fn \in {"classify_tdnet", "classify_edinet"}
     /\ ret.done
     /\ AnyIn(EDINET_SKIP, ClassifiedText)
     /\ AnyIn(EarningsKeywords, ClassifiedText))
    => ret.value = None

\* C8: a document classified None reaches no embed builder and no
\* post_discord call and adds nothing to the ledger: every dispatched
\* document has a category, and the ledger holds the loaded keys and the
\* keys of the calls of this run that returned, nothing else; so does the
\* file save_sent writes.
C8_IgnoredNeverDispatched ==
    /\ last.step = "dispatch" => Classify(last.key[1], last.text) # None
    /\ last.step = "ignore" =>
           /\ Classify(last.key[1], last.text) = None
           /\ last.embed = "" /\ last.out = NoCall
    /\ RunStarted /\ crashedIn # "load_sent" => sent = loaded \cup NotRaisedKeys
    /\ pc = "done" => Range(file.ids) \subseteq loaded \cup Range(Posted)

\* an ignored document was the last one of the run, whose ledger also took
\* a dispatched key
C8_Witness ==
    /\ pc = "edinet_loop"
    /\ edinetDocs = <<>>
    /\ last.step = "ignore"
    /\ last.key \notin sent
    /\ calls # <<>>

\* a well-formed, eligible record that follows a malformed item in the
\* same listing
AfterMalformed(items, j) ==
    /\ items[j].kind = "dict"
    /\ items[j].id # ""
    /\ items[j].title # <<>>
    /\ EligibleCode(items[j].company_code)
    /\ \E i \in 1..(j - 1) : items[i].kind # "dict"

\* C9: a malformed item of a TDnet listing is skipped alone: fetch_tdnet
\* still emits every well-formed, eligible record after it in the listing.
C9_MalformedRecordSkipped ==
    (arg.fn = "fetch_tdnet" /\ ret.done)
    => \A u \in 1..Len(arg.responses) :
           LET r == arg.responses[u]
           IN  (r.kind = "ok" /\ r.status = 200)
               => \A j \in 1..Len(r.items) :
                      AfterMalformed(r.items, j)
                      => \E k \in 1..Len(ret.value) : ret.value[k].id = r.items[j].id

\* C10: within a run no document_key is handed to post_discord twice.
C10_AtMostOneDispatchPerKey ==
    \A i, j \in 1..Len(calls) : calls[i].key = calls[j].key => i = j

\* the upstream repeated, in this run, a source id that this run had
\* already dispatched
C10_Witness ==
    /\ last.step = "already_sent"
    /\ last.key \notin loaded
    /\ last.key \in Range(Posted)

====
